---- MODULE Spec2Model ----
(***************************************************************************)
(* Model of horovod/common/ops/mpi_operations.{h,cc}: the MPI              *)
(* communication context (MPIContext) and the MPI operation dispatchers    *)
(* (MPIAllreduce, MPIAllgather, MPIHierarchicalAllgather, MPIBroadcast).   *)
(*                                                                         *)
(* Four specifications share the module:                                   *)
(*   Spec      every rank of a job runs one dispatcher call; the backend   *)
(*             collectives block and complete (or fail) per rank           *)
(*   SpecHier  the hierarchical allgather rounds of Spec, with fairness    *)
(*   SpecCtx   one process calls the primitives of MPIContext one by one   *)
(*   SpecWin   the local ranks of a node run the shared window lifecycle   *)
(***************************************************************************)
EXTENDS Integers, Sequences, FiniteSets, TLC

VARIABLES layout, call, pc, log, buf, sent, ctx, wpc, window, late

opsVars == <<layout, call, pc, log, buf, sent>>
ctxVars == <<ctx>>
winVars == <<wpc, window, late>>
vars == <<layout, call, pc, log, buf, sent, ctx, wpc, window, late>>

(***************************************************************************)
(* Bounds of the model.                                                    *)
(***************************************************************************)
\* largest number of ranks in a job (summed over its nodes)
MaxRanks == 4

(***************************************************************************)
(* Integers.  int64_t values are kept as two base-2^31 digits,             *)
(* hi * 2^31 + lo, so that counts beyond the range of int are exact.       *)
(***************************************************************************)
INT_MAX == 2147483647

I64(h, l) == [hi |-> h, lo |-> l]

\* a < b on int64_t values
Less64(a, b) == a.hi < b.hi \/ (a.hi = b.hi /\ a.lo < b.lo)

\* the conversion (int) num_elements: the low 32 bits, read as signed
CastInt(n) == IF n.hi % 2 = 0 THEN n.lo ELSE (n.lo - INT_MAX) - 1

\* the int64_t value of an int that is >= 0
Widen(i) == I64(0, i)

\* element index p lies among the first n elements, n an int
BelowInt(p, n) == p.hi = 0 /\ p.lo < n

(***************************************************************************)
(* Data types and communicators.                                           *)
(***************************************************************************)
DataTypes == {"HOROVOD_UINT8", "HOROVOD_INT8", "HOROVOD_UINT16", "HOROVOD_INT16",
              "HOROVOD_INT32", "HOROVOD_INT64", "HOROVOD_FLOAT16",
              "HOROVOD_FLOAT32", "HOROVOD_FLOAT64", "HOROVOD_BOOL",
              "HOROVOD_BYTE"}

\* every value of the DataType enumeration
EnumDataTypes == DataTypes \cup {"HOROVOD_NULL"}

\* a value of type DataType that is none of the enumerators
UnknownDataType == "DataType(12)"

Communicators == {"GLOBAL", "LOCAL", "CROSS"}

\* a value of type Communicator that is none of the enumerators
UnknownCommunicator == "Communicator(3)"

Returned(h) == [ok |-> TRUE, value |-> h, error |-> "none", name |-> "none"]
Thrown(e, n) == [ok |-> FALSE, value |-> "none", error |-> e, name |-> n]

\* GetMPIDataType with the default branch returning the null handle
GetMPIDataTypeDefaultNull(dtype) ==
  CASE dtype = "HOROVOD_UINT8"   -> Returned("MPI_UINT8_T")
    [] dtype = "HOROVOD_INT8"    -> Returned("MPI_INT8_T")
    [] dtype = "HOROVOD_UINT16"  -> Returned("MPI_UINT16_T")
    [] dtype = "HOROVOD_INT16"   -> Returned("MPI_INT16_T")
    [] dtype = "HOROVOD_INT32"   -> Returned("MPI_INT32_T")
    [] dtype = "HOROVOD_INT64"   -> Returned("MPI_INT64_T")
    [] dtype = "HOROVOD_FLOAT16" -> Returned("mpi_float16_t")
    [] dtype = "HOROVOD_FLOAT32" -> Returned("MPI_FLOAT")
    [] dtype = "HOROVOD_FLOAT64" -> Returned("MPI_DOUBLE")
    [] dtype = "HOROVOD_BOOL"    -> Returned("MPI_C_BOOL")
    [] dtype = "HOROVOD_BYTE"    -> Returned("MPI_BYTE")
    [] OTHER                     -> Returned("MPI_DATATYPE_NULL")

\* MPIContext::GetMPIDataType(DataType)
GetMPIDataType(dtype) ==
  CASE dtype = "HOROVOD_UINT8"   -> Returned("MPI_UINT8_T")
    [] dtype = "HOROVOD_INT8"    -> Returned("MPI_INT8_T")
    [] dtype = "HOROVOD_UINT16"  -> Returned("MPI_UINT16_T")
    [] dtype = "HOROVOD_INT16"   -> Returned("MPI_INT16_T")
    [] dtype = "HOROVOD_INT32"   -> Returned("MPI_INT32_T")
    [] dtype = "HOROVOD_INT64"   -> Returned("MPI_INT64_T")
    [] dtype = "HOROVOD_FLOAT16" -> Returned("mpi_float16_t")
    [] dtype = "HOROVOD_FLOAT32" -> Returned("MPI_FLOAT")
    [] dtype = "HOROVOD_FLOAT64" -> Returned("MPI_DOUBLE")
    [] dtype = "HOROVOD_BOOL"    -> Returned("MPI_C_BOOL")
    [] dtype = "HOROVOD_BYTE"    -> Returned("MPI_BYTE")
    [] dtype = "HOROVOD_NULL"    -> Returned("MPI_DATATYPE_NULL")
    [] OTHER                     -> Thrown("Type is not supported in MPI mode.", dtype)

\* MPIContext::GetMPICommunicator(Communicator)
GetMPICommunicator(comm) ==
  CASE comm = "GLOBAL" -> Returned("mpi_comm")
    [] comm = "LOCAL"  -> Returned("local_comm")
    [] comm = "CROSS"  -> Returned("cross_comm")
    [] OTHER           -> Thrown("Communicator is not supported in MPI mode.", comm)

\* the reduction operator MPIContext::Allreduce hands to MPI_Allreduce
ReduceOp(dtype) == IF dtype = "HOROVOD_FLOAT16" THEN "mpi_float16_sum" ELSE "MPI_SUM"

(***************************************************************************)
(* Cluster layout.  layout[n] is the number of ranks on node n; global     *)
(* ranks are numbered node by node.                                        *)
(***************************************************************************)
RECURSIVE Total(_)
Total(lay) == IF lay = <<>> THEN 0 ELSE Head(lay) + Total(Tail(lay))

Layouts == {lay \in UNION {[1..n -> 1..MaxRanks] : n \in 1..MaxRanks} :
              Total(lay) <= MaxRanks}

Size == Total(layout)
Ranks == 0..(Size - 1)

RECURSIVE Locate(_, _, _)
Locate(lay, g, n) == IF g < lay[n] THEN [node |-> n, local_rank |-> g]
                     ELSE Locate(lay, g - lay[n], n + 1)

NodeOf(g) == Locate(layout, g, 1).node

\* global_state_->local_rank of rank g
local_rank(g) == Locate(layout, g, 1).local_rank

\* global_state_->is_homogeneous
is_homogeneous == \A m, n \in DOMAIN layout : layout[m] = layout[n]

\* the members of the communicator behind a handle, seen from rank g
Group(handle, g) ==
  CASE handle = "mpi_comm"   -> Ranks
    [] handle = "local_comm" -> {q \in Ranks : NodeOf(q) = NodeOf(g)}
    [] handle = "cross_comm" -> {q \in Ranks : local_rank(q) = local_rank(g)}

(***************************************************************************)
(* Buffers.  A buffer of num_elements elements is observed at the element  *)
(* indices of SamplePos that lie inside it.                                *)
(***************************************************************************)
SamplePos == <<I64(0, 0), I64(0, 1), I64(0, 2), I64(2, 0)>>

\* the element counts callers pass: 3, 2^31 and 2^32 + 3
Counts == {I64(0, 3), I64(1, 0), I64(2, 3)}

InBuf(count) == {k \in DOMAIN SamplePos : Less64(SamplePos[k], count)}

\* the input tensor data of rank g; rank 0 holds 1, 2, 3, ...
Input(g, count) == [k \in InBuf(count) |-> 10 * g + k]

\* an output buffer that has not been written yet
Stale(count) == [k \in InBuf(count) |-> -1]

NoData == <<>>

(***************************************************************************)
(* The timeline and the backend calls of a rank, in program order.         *)
(***************************************************************************)
ActivityStartAll(activity) == [ev |-> "ActivityStartAll", fn |-> activity, args |-> <<>>]
ActivityEndAll == [ev |-> "ActivityEndAll", fn |-> "", args |-> <<>>]
BackendCall(fn, args) == [ev |-> "call", fn |-> fn, args |-> args]
BackendReturn(fn, status) == [ev |-> "return", fn |-> fn, args |-> status]
Throw(what, name) == [ev |-> "throw", fn |-> what, args |-> name]

CallArgs(count, type, rtype, op, root, comm, inplace) ==
  [count |-> count, type |-> type, rtype |-> rtype, op |-> op, root |-> root,
   comm |-> comm, inplace |-> inplace]

Indices(r, e, f) == {i \in DOMAIN log[r] : log[r][i].ev = e /\ log[r][i].fn = f}
Entered(r, fn) == Indices(r, "call", fn) # {}

\* the backend call rank r is blocked in
CurCall(r) == log[r][Len(log[r])]

(***************************************************************************)
(* The MPI library.                                                        *)
(***************************************************************************)
\* the error class MPI reports for erroneous arguments, MPI_SUCCESS if none
ArgStatus(c) ==
  CASE "MPI_DATATYPE_NULL" \in {c.args.type, c.args.rtype} -> "MPI_ERR_TYPE"
    [] c.args.count < 0                                    -> "MPI_ERR_COUNT"
    [] c.fn = "MPI_Bcast" /\ c.args.root \notin Ranks      -> "MPI_ERR_ROOT"
    [] OTHER                                               -> "MPI_SUCCESS"

\* a collective completes on r once the ranks it depends on have entered it
Complete(r, c) ==
  IF c.fn = "MPI_Bcast" THEN Entered(c.args.root, c.fn)
  ELSE \A q \in Group(c.args.comm, r) : Entered(q, c.fn)

\* the statuses the call rank r is blocked in can return now
Statuses(r) ==
  LET c == CurCall(r) IN
  IF ArgStatus(c) # "MPI_SUCCESS" THEN {ArgStatus(c)}
  ELSE {"MPI_ERR_OTHER"} \cup (IF Complete(r, c) THEN {"MPI_SUCCESS"} ELSE {})

RECURSIVE SumOver(_, _)
SumOver(S, k) == IF S = {} THEN 0
                 ELSE LET q == CHOOSE x \in S : TRUE
                      IN sent[q][k] + SumOver(S \ {q}, k)

(***************************************************************************)
(* MPIContext primitives, up to the point where the backend call blocks,   *)
(* and from the backend's return on.  Each gives the events the rank adds  *)
(* to its log and where the rank is afterwards: inside the backend call    *)
(* (state = the call's name), past it ("returned") or unwound by an        *)
(* exception ("failed").                                                   *)
(***************************************************************************)
Outcome(events, state) == [events |-> events, state |-> state]

\* evaluate the arguments, then enter the backend call: the set of outcomes.
\* resolved holds the results of the GetMPIDataType and GetMPICommunicator
\* calls among the arguments; they are evaluated in an order the compiler
\* chooses, so when several are refused any of them may throw.
Enter(fn, resolved, args) ==
  IF \A x \in resolved : x.ok
  THEN {Outcome(<<BackendCall(fn, args)>>, fn)}
  ELSE {Outcome(<<Throw(x.error, x.name)>>, "failed") : x \in {y \in resolved : ~y.ok}}

\* the status check left out: the call returns whatever the backend reports
IgnoreStatus(fn, op, what) == Outcome(<<BackendReturn(fn, op)>>, "returned")

\* if (op != MPI_SUCCESS) throw std::logic_error(what)
CheckStatus(fn, op, what) ==
  IF op # "MPI_SUCCESS"
  THEN Outcome(<<BackendReturn(fn, op), Throw(what, fn)>>, "failed")
  ELSE Outcome(<<BackendReturn(fn, op)>>, "returned")

\* a backend call whose status the caller does not look at
NoCheck(fn, op) == Outcome(<<BackendReturn(fn, op)>>, "returned")

\* MPIContext::Allreduce, entry
Allreduce(num_elements, dtype, sendbuff, comm) ==
  LET t == GetMPIDataType(dtype)
      c == GetMPICommunicator(comm)
  IN Enter("MPI_Allreduce", {t, c},
           CallArgs(CastInt(num_elements), t.value, "none", ReduceOp(dtype), 0,
                    c.value, sendbuff = "nullptr"))

\* MPIContext::Allgatherv, entry
Allgatherv(sendtype, recvtype, comm) ==
  LET t == GetMPIDataType(sendtype)
      u == GetMPIDataType(recvtype)
      c == GetMPICommunicator(comm)
  IN Enter("MPI_Allgatherv", {t, u, c},
           CallArgs(0, t.value, u.value, "none", 0, c.value, FALSE))

\* MPIContext::Broadcast, entry
Broadcast(num_elements, dtype, root_rank, comm) ==
  LET t == GetMPIDataType(dtype)
      c == GetMPICommunicator(comm)
  IN Enter("MPI_Bcast", {t, c},
           CallArgs(CastInt(num_elements), t.value, "none", "none", root_rank,
                    c.value, FALSE))

\* MPIContext::Barrier, entry
Barrier(comm) ==
  LET c == GetMPICommunicator(comm)
  IN Enter("MPI_Barrier", {c}, CallArgs(0, "none", "none", "none", 0, c.value, FALSE))

AllreduceFailed == "MPI_Allreduce failed, see MPI output for details."
AllgathervFailed == "MPI_Allgatherv failed, see MPI output for details."
BroadcastFailed == "MPI_Broadcast failed, see MPI output for details."
BarrierFailed == "MPI_Barrier failed, see MPI output for details."

\* the first elements of data that a backend call with this outcome reads
Snapshot(e, data) ==
  IF e.state = "failed" THEN NoData
  ELSE LET n == e.events[Len(e.events)].args.count
       IN [k \in {j \in DOMAIN data : BelowInt(SamplePos[j], n)} |-> data[k]]

(***************************************************************************)
(* Dispatchers, one call per rank.                                         *)
(***************************************************************************)
\* DoMPIAllreduce: the send buffer handed to MPIContext::Allreduce
SendBuf == IF call.nentries > 1 \/ call.aliased THEN "nullptr" ELSE "tensor"

\* the branch taken by rank 0 of the job alone
EntersCrossOnlyRankZero(r) == r = 0

\* the branch taken by every rank
EntersCrossAll(r) == TRUE

\* the branch of MPIHierarchicalAllgather::DoAllgatherv
EntersCross(r) == is_homogeneous \/ local_rank(r) = 0

\* the barrier of the round taken over the node alone
BarrierScopeLocal == "LOCAL"

\* the scope of the barrier that ends MPIHierarchicalAllgather::DoAllgatherv
BarrierScope == "GLOBAL"

Advance(r, events, state) ==
  /\ pc' = [pc EXCEPT ![r] = state]
  /\ log' = [log EXCEPT ![r] = @ \o events]

\* MPIAllreduce::DoAllreduce up to the blocking MPI_Allreduce
DoAllreduce(r) ==
  /\ call.kind = "allreduce" /\ pc[r] = "idle"
  /\ \E e \in Allreduce(call.num_elements, call.dtype, SendBuf, "GLOBAL") :
     LET data == IF SendBuf = "nullptr" THEN buf[r] ELSE Input(r, call.num_elements)
     IN /\ Advance(r, <<ActivityStartAll("MPI_ALLREDUCE")>> \o e.events, e.state)
        /\ sent' = [sent EXCEPT ![r] = Snapshot(e, data)]
  /\ UNCHANGED <<layout, call, buf, ctxVars, winVars>>

\* MPI_Allreduce returns; the rest of MPIContext::Allreduce and DoAllreduce
AllreduceReturn(r) ==
  /\ pc[r] = "MPI_Allreduce"
  /\ \E op \in Statuses(r) :
       LET e == CheckStatus("MPI_Allreduce", op, AllreduceFailed) IN
       IF e.state = "failed"
       THEN Advance(r, e.events, "failed") /\ UNCHANGED buf
       ELSE /\ Advance(r, e.events \o <<ActivityEndAll>>, "done")
            /\ buf' = [buf EXCEPT ![r] =
                 [k \in DOMAIN buf[r] |->
                    IF k \in DOMAIN sent[r] THEN SumOver(Ranks, k) ELSE buf[r][k]]]
  /\ UNCHANGED <<layout, call, sent, ctxVars, winVars>>

\* MPIAllgather::DoAllgatherv up to the blocking MPI_Allgatherv
DoAllgatherv(r) ==
  /\ call.kind = "allgather" /\ pc[r] = "idle"
  /\ \E e \in Allgatherv(call.dtype, call.dtype, "GLOBAL") :
       Advance(r, <<ActivityStartAll("MPI_ALLGATHER")>> \o e.events, e.state)
  /\ UNCHANGED <<layout, call, buf, sent, ctxVars, winVars>>

\* MPIHierarchicalAllgather::DoAllgatherv up to its first blocking call
HierarchicalDoAllgatherv(r) ==
  /\ call.kind = "hierarchical_allgather" /\ pc[r] = "idle"
  /\ \E e \in IF EntersCross(r) THEN Allgatherv(call.dtype, call.dtype, "CROSS")
              ELSE Barrier(BarrierScope) :
       Advance(r, <<ActivityStartAll("MPI_CROSS_ALLGATHER")>> \o e.events, e.state)
  /\ UNCHANGED <<layout, call, buf, sent, ctxVars, winVars>>

\* MPI_Allgatherv returns; the rest of MPIContext::Allgatherv and of the
\* dispatcher, up to MPI_Barrier in the hierarchical one
AllgathervReturn(r) ==
  /\ pc[r] = "MPI_Allgatherv"
  /\ \E op \in Statuses(r) :
       LET e == CheckStatus("MPI_Allgatherv", op, AllgathervFailed) IN
       IF e.state = "failed" THEN Advance(r, e.events, "failed")
       ELSE IF call.kind = "hierarchical_allgather"
       THEN \E b \in Barrier(BarrierScope) : Advance(r, e.events \o b.events, b.state)
       ELSE Advance(r, e.events \o <<ActivityEndAll>>, "done")
  /\ UNCHANGED <<layout, call, buf, sent, ctxVars, winVars>>

\* MPI_Barrier returns; the rest of MPIContext::Barrier and of
\* MPIHierarchicalAllgather::DoAllgatherv
BarrierReturn(r) ==
  /\ pc[r] = "MPI_Barrier"
  /\ \E op \in Statuses(r) :
       LET e == CheckStatus("MPI_Barrier", op, BarrierFailed) IN
       IF e.state = "failed" THEN Advance(r, e.events, "failed")
       ELSE Advance(r, e.events \o <<ActivityEndAll>>, "done")
  /\ UNCHANGED <<layout, call, buf, sent, ctxVars, winVars>>

\* MPIBroadcast::DoBroadcast up to the blocking MPI_Bcast
DoBroadcast(r) ==
  /\ call.kind = "broadcast" /\ pc[r] = "idle"
  /\ \E e \in Broadcast(call.num_elements, call.dtype, call.root_rank, "GLOBAL") :
        /\ Advance(r, <<ActivityStartAll("MPI_BCAST")>> \o e.events, e.state)
        /\ sent' = [sent EXCEPT ![r] =
                      IF r = call.root_rank THEN Snapshot(e, buf[r]) ELSE NoData]
  /\ UNCHANGED <<layout, call, buf, ctxVars, winVars>>

\* MPI_Bcast returns; the rest of MPIContext::Broadcast and DoBroadcast
BroadcastReturn(r) ==
  /\ pc[r] = "MPI_Bcast"
  /\ \E op \in Statuses(r) :
       LET e == CheckStatus("MPI_Bcast", op, BroadcastFailed) IN
       IF e.state = "failed"
       THEN Advance(r, e.events, "failed") /\ UNCHANGED buf
       ELSE /\ Advance(r, e.events \o <<ActivityEndAll>>, "done")
            /\ buf' = [buf EXCEPT ![r] =
                 [k \in DOMAIN buf[r] |->
                    IF k \in DOMAIN sent[call.root_rank]
                    THEN sent[call.root_rank][k] ELSE buf[r][k]]]
  /\ UNCHANGED <<layout, call, sent, ctxVars, winVars>>

(***************************************************************************)
(* Spec: a job whose ranks all run the same dispatcher call.               *)
(***************************************************************************)
\* the element types the batches of the job carry
JobDataTypes == {"HOROVOD_INT32", "HOROVOD_FLOAT16", "HOROVOD_NULL"}

NoCount == I64(0, 0)

Call(kind, dtype, num_elements, root_rank, nentries, aliased) ==
  [kind |-> kind, dtype |-> dtype, num_elements |-> num_elements,
   root_rank |-> root_rank, nentries |-> nentries, aliased |-> aliased]

Calls(lay) ==
  {Call("allreduce", t, n, 0, e, a) :
     t \in JobDataTypes, n \in Counts, e \in 1..2, a \in BOOLEAN}
  \cup {Call(k, t, NoCount, 0, 1, FALSE) :
     k \in {"allgather", "hierarchical_allgather"}, t \in JobDataTypes}
  \cup {Call("broadcast", t, n, root, 1, TRUE) :
     t \in JobDataTypes, n \in Counts, root \in (-1)..Total(lay)}

\* the buffer a dispatcher is handed: the fused or aliased buffer holds the
\* input, a separate output buffer holds nothing yet
InitBuf(c, r) ==
  CASE c.kind = "allreduce" ->
         IF c.nentries > 1 \/ c.aliased THEN Input(r, c.num_elements)
         ELSE Stale(c.num_elements)
    [] c.kind = "broadcast" -> Input(r, c.num_elements)
    [] OTHER -> NoData

CtxState(op, dtype, calls, statuses, result, error, name) ==
  [op |-> op, dtype |-> dtype, calls |-> calls, statuses |-> statuses,
   result |-> result, error |-> error, name |-> name]

IdleCtx == CtxState("none", "none", <<>>, <<>>, "none", "none", "none")

NoWindow == [mapped |-> {}, released |-> {}]

Init ==
  /\ layout \in Layouts
  /\ call \in Calls(layout)
  /\ pc = [r \in Ranks |-> "idle"]
  /\ log = [r \in Ranks |-> <<>>]
  /\ buf = [r \in Ranks |-> InitBuf(call, r)]
  /\ sent = [r \in Ranks |-> NoData]
  /\ ctx = IdleCtx
  /\ wpc = <<>> /\ window = NoWindow /\ late = {}

Next ==
  \/ \E r \in Ranks : DoAllreduce(r)
  \/ \E r \in Ranks : AllreduceReturn(r)
  \/ \E r \in Ranks : DoAllgatherv(r)
  \/ \E r \in Ranks : HierarchicalDoAllgatherv(r)
  \/ \E r \in Ranks : AllgathervReturn(r)
  \/ \E r \in Ranks : BarrierReturn(r)
  \/ \E r \in Ranks : DoBroadcast(r)
  \/ \E r \in Ranks : BroadcastReturn(r)

Spec == Init /\ [][Next]_vars

(***************************************************************************)
(* SpecHier: the hierarchical allgather rounds of Spec, with fairness.     *)
(* Every rank is a process of its own and a backend call returns once it   *)
(* can, so a step that is possible is eventually taken.  A backend call    *)
(* that fails of its own accord (MPI_ERR_OTHER) is a fault of the          *)
(* environment: it may happen, and nothing makes it happen.                *)
(***************************************************************************)
InitHier == Init /\ call.kind = "hierarchical_allgather"

NextHier ==
  \/ \E r \in Ranks : HierarchicalDoAllgatherv(r)
  \/ \E r \in Ranks : AllgathervReturn(r)
  \/ \E r \in Ranks : BarrierReturn(r)

NoFault == \A r \in Ranks : \A i \in DOMAIN log[r] :
             log[r][i].ev = "return" => log[r][i].args # "MPI_ERR_OTHER"

SpecHier == InitHier /\ [][NextHier]_vars /\ WF_vars(NextHier /\ NoFault')

(***************************************************************************)
(* Properties of Spec.                                                     *)
(***************************************************************************)
Hier == call.kind = "hierarchical_allgather"

\* positions in the log of rank r of its calls of fn on the communicator comm
CallsOn(r, fn, comm) == {i \in Indices(r, "call", fn) : log[r][i].args.comm = comm}
CrossCalls(r) == CallsOn(r, "MPI_Allgatherv", "cross_comm")
GlobalBarriers(r) == CallsOn(r, "MPI_Barrier", "mpi_comm")

\* positions of the returns of fn with the given status
ReturnsOf(r, fn, status) == {i \in Indices(r, "return", fn) : log[r][i].args = status}
Failures(r) == {i \in DOMAIN log[r] :
                  log[r][i].ev = "return" /\ log[r][i].args # "MPI_SUCCESS"}
Starts(r) == {i \in DOMAIN log[r] : log[r][i].ev = "ActivityStartAll"}
Ends(r) == {i \in DOMAIN log[r] : log[r][i].ev = "ActivityEndAll"}
AllCalls(r) == {i \in DOMAIN log[r] : log[r][i].ev = "call"}

\* the ranks the cross-node stage of the round is for
TakesPart(r) == is_homogeneous \/ local_rank(r) = 0

\* C1 as stated: in every layout, a rank issues the CROSS Allgatherv only if
\* its local rank is 0, and that call is followed by exactly one GLOBAL Barrier.
C1_OnlyLocalRankZero ==
  Hier => \A r \in Ranks :
    /\ CrossCalls(r) # {} => local_rank(r) = 0
    /\ pc[r] = "done" => Cardinality(GlobalBarriers(r)) = 1

\* C1 amended: the CROSS Allgatherv is issued once by exactly the ranks for
\* which the cluster is homogeneous or the local rank is 0 (in a heterogeneous
\* cluster: local rank 0 only, once per node); a CROSS Allgatherv that returns
\* successfully is followed on its rank by exactly one GLOBAL Barrier.
C1_CrossCallPattern ==
  Hier => \A r \in Ranks :
    /\ Cardinality(CrossCalls(r)) <= 1
    /\ CrossCalls(r) # {} => TakesPart(r)
    /\ (pc[r] # "idle" /\ TakesPart(r)) => Cardinality(CrossCalls(r)) = 1
    /\ (~is_homogeneous /\ local_rank(r) # 0) => CrossCalls(r) = {}
    /\ \A i \in ReturnsOf(r, "MPI_Allgatherv", "MPI_SUCCESS") :
         /\ Cardinality(GlobalBarriers(r)) = 1
         /\ \A j \in GlobalBarriers(r) : i < j
    /\ pc[r] = "done" => Cardinality(GlobalBarriers(r)) = 1

\* a heterogeneous round has finished: a rank of local rank 1 has skipped the
\* cross-node stage, the local-rank-0 ranks have not
C1_Witness ==
  /\ Hier /\ ~is_homogeneous /\ Len(layout) >= 2
  /\ \A r \in Ranks : pc[r] = "done"
  /\ \E r \in Ranks : local_rank(r) # 0 /\ CrossCalls(r) = {}
  /\ \A r \in Ranks : local_rank(r) = 0 => Cardinality(CrossCalls(r)) = 1

\* C3: in a hierarchical round every rank enters the GLOBAL Barrier at most
\* once, exactly once when it returns, and only after its own CROSS Allgatherv
\* has returned; no rank returns from DoAllgatherv before every rank taking
\* part in the cross-node stage has completed its CROSS Allgatherv.
C3_BarrierAfterCross ==
  Hier => \A r \in Ranks :
    /\ Cardinality(GlobalBarriers(r)) <= 1
    /\ pc[r] = "done" => Cardinality(GlobalBarriers(r)) = 1
    /\ \A j \in GlobalBarriers(r) : \A i \in CrossCalls(r) :
         \E k \in ReturnsOf(r, "MPI_Allgatherv", "MPI_SUCCESS") : i < k /\ k < j
    /\ pc[r] = "done" =>
         \A q \in Ranks : TakesPart(q) =>
           ReturnsOf(q, "MPI_Allgatherv", "MPI_SUCCESS") # {}

\* a rank that skipped the cross-node stage has returned from the round
C3_Witness ==
  /\ Hier
  /\ \E r \in Ranks : ~TakesPart(r) /\ pc[r] = "done" /\ CrossCalls(r) = {}
  /\ \E q \in Ranks : q # 0 /\ TakesPart(q)

\* C5: in every dispatcher the activity start is recorded before any backend
\* primitive is invoked; the activity end is recorded only after every
\* primitive of the call has returned successfully (for the hierarchical
\* allgather the CROSS Allgatherv, when taken, and the GLOBAL Barrier); after a
\* failed primitive no end is recorded and no further primitive is invoked.
C5_ActivityBrackets ==
  \A r \in Ranks :
    /\ log[r] # <<>> => log[r][1].ev = "ActivityStartAll"
    /\ Cardinality(Starts(r)) <= 1
    /\ \A e \in Ends(r) :
         /\ e = Len(log[r])
         /\ Failures(r) = {}
         /\ AllCalls(r) # {}
         /\ \A i \in AllCalls(r) :
              /\ i + 1 < e
              /\ log[r][i + 1] = BackendReturn(log[r][i].fn, "MPI_SUCCESS")
         /\ Hier => /\ GlobalBarriers(r) # {}
                    /\ TakesPart(r) => CrossCalls(r) # {}
    /\ \A f \in Failures(r) :
         /\ Ends(r) = {}
         /\ \A i \in AllCalls(r) : i < f
    /\ pc[r] = "done" <=> Ends(r) # {}

\* the GLOBAL Barrier of a hierarchical round has failed on a rank whose CROSS
\* Allgatherv had returned
C5_Witness ==
  /\ Hier
  /\ \E r \in Ranks :
       /\ pc[r] = "failed"
       /\ ReturnsOf(r, "MPI_Allgatherv", "MPI_SUCCESS") # {}
       /\ ReturnsOf(r, "MPI_Barrier", "MPI_ERR_OTHER") # {}

\* C6: a Broadcast whose root_rank is no rank of the scope fails on the caller
\* before any buffer is modified; with a valid root R every member's buffer
\* equals R's content after the call, and R's buffer is unchanged.
C6_BroadcastResult ==
  call.kind = "broadcast" => \A r \in Ranks :
    /\ call.root_rank \notin Ranks =>
         pc[r] # "done" /\ buf[r] = Input(r, call.num_elements)
    /\ (call.root_rank \in Ranks /\ pc[r] = "done") =>
         /\ buf[r] = Input(call.root_rank, call.num_elements)
         /\ buf[call.root_rank] = Input(call.root_rank, call.num_elements)

RECURSIVE InputSum(_, _)
InputSum(S, k) == IF S = {} THEN 0
                  ELSE LET q == CHOOSE x \in S : TRUE
                       IN Input(q, call.num_elements)[k] + InputSum(S \ {q}, k)

\* C7: after Allreduce, with a null send buffer or with a separate one of the
\* same content, buffer holds on every rank the element-wise sum of the inputs
\* of all ranks.
C7_AllreduceSum ==
  call.kind = "allreduce" => \A r \in Ranks :
    pc[r] = "done" =>
      buf[r] = [k \in InBuf(call.num_elements) |-> InputSum(Ranks, k)]

\* C9: when every rank calls MPIHierarchicalAllgather::DoAllgatherv and no
\* call fails, every rank eventually returns from it, in homogeneous and in
\* heterogeneous clusters; every member of a CROSS group that some rank enters
\* takes part in the cross-node stage.
C9_RoundTerminates ==
  /\ [](\A r \in Ranks : CrossCalls(r) # {} =>
          \A q \in Group("cross_comm", r) : TakesPart(q))
  /\ <>((\A r \in Ranks : pc[r] = "done") \/ (\E r \in Ranks : pc[r] = "failed"))

\* a round on two nodes of two ranks each has finished without a failure
C9_Witness ==
  /\ Hier /\ layout = <<2, 2>>
  /\ \A r \in Ranks : pc[r] = "done" /\ Cardinality(CrossCalls(r)) = 1

\* C10: the element count handed to MPI_Allreduce and MPI_Bcast equals the
\* caller's num_elements.
C10_CountPreserved ==
  \A r \in Ranks : \A i \in AllCalls(r) :
    log[r][i].fn \in {"MPI_Allreduce", "MPI_Bcast"} =>
      /\ log[r][i].args.count >= 0
      /\ Widen(log[r][i].args.count) = call.num_elements

(***************************************************************************)
(* SpecCtx: one process calls the primitives of MPIContext, one call after *)
(* the other; the backend reports a status of its choice.  ctx holds the   *)
(* last call: the backend calls it made, their statuses and how it ended.  *)
(***************************************************************************)
CtxDataTypes == EnumDataTypes \cup {UnknownDataType}
CtxCommunicators == Communicators \cup {UnknownCommunicator}

\* the statuses the backend can report for a call
CtxStatuses(c) ==
  IF ArgStatus(c) # "MPI_SUCCESS" THEN {ArgStatus(c)}
  ELSE {"MPI_SUCCESS", "MPI_ERR_OTHER"}

\* MPIContext::AllocateSharedBuffer, entry
AllocateSharedBuffer(comm) ==
  LET c == GetMPICommunicator(comm)
  IN Enter("MPI_Win_allocate_shared", {c},
           CallArgs(0, "none", "none", "none", 0, c.value, FALSE))

\* MPIContext::QuerySharedBuffer, entry
QuerySharedBuffer(rank) ==
  Enter("MPI_Win_shared_query", {},
        CallArgs(0, "none", "none", "none", rank, "window", FALSE))

\* MPIContext::GetTypeSize, entry
GetTypeSize(dtype) ==
  LET t == GetMPIDataType(dtype)
  IN Enter("MPI_Type_size", {t}, CallArgs(0, t.value, "none", "none", 0, "none", FALSE))

\* FreeSharedBuffer releasing the window without the fence
FreeSharedBufferNoFence == <<"MPI_Win_free">>

\* MPIContext::FreeSharedBuffer: the backend calls it makes, in order
FreeSharedBuffer == <<"MPI_Win_fence", "MPI_Win_free">>

WindowCall(fn) == BackendCall(fn, CallArgs(0, "none", "none", "none", 0, "window", FALSE))

\* a primitive with one backend call: entry is the outcomes of its entry
CtxCall(op, dtype, entry, what, checked) ==
  \E e \in entry :
    IF e.state = "failed"
    THEN ctx' = CtxState(op, dtype, <<>>, <<>>, "thrown", e.events[1].fn, e.events[1].args)
    ELSE \E st \in CtxStatuses(e.events[1]) :
           LET c == IF checked THEN CheckStatus(e.state, st, what)
                    ELSE NoCheck(e.state, st)
           IN ctx' = IF c.state = "failed"
                     THEN CtxState(op, dtype, e.events, <<st>>, "thrown", what, e.state)
                     ELSE CtxState(op, dtype, e.events, <<st>>, "returned", "none", "none")

CtxAllreduce ==
  /\ \E dtype \in CtxDataTypes, n \in Counts, sendbuff \in {"nullptr", "tensor"},
        comm \in CtxCommunicators :
       CtxCall("Allreduce", dtype, Allreduce(n, dtype, sendbuff, comm),
               AllreduceFailed, TRUE)
  /\ UNCHANGED <<opsVars, winVars>>

CtxAllgatherv ==
  /\ \E dtype \in CtxDataTypes, comm \in CtxCommunicators :
       CtxCall("Allgatherv", dtype, Allgatherv(dtype, dtype, comm), AllgathervFailed, TRUE)
  /\ UNCHANGED <<opsVars, winVars>>

CtxBroadcast ==
  /\ \E dtype \in CtxDataTypes, n \in Counts, root \in {-1, 0, Size},
        comm \in CtxCommunicators :
       CtxCall("Broadcast", dtype, Broadcast(n, dtype, root, comm),
               BroadcastFailed, TRUE)
  /\ UNCHANGED <<opsVars, winVars>>

CtxBarrier ==
  /\ \E comm \in CtxCommunicators :
       CtxCall("Barrier", "none", Barrier(comm), BarrierFailed, TRUE)
  /\ UNCHANGED <<opsVars, winVars>>

CtxAllocateSharedBuffer ==
  /\ \E comm \in CtxCommunicators :
       CtxCall("AllocateSharedBuffer", "none", AllocateSharedBuffer(comm), "none", FALSE)
  /\ UNCHANGED <<opsVars, winVars>>

CtxQuerySharedBuffer ==
  /\ \E rank \in Ranks :
       CtxCall("QuerySharedBuffer", "none", QuerySharedBuffer(rank), "none", FALSE)
  /\ UNCHANGED <<opsVars, winVars>>

CtxFreeSharedBuffer ==
  /\ \E sts \in [DOMAIN FreeSharedBuffer -> {"MPI_SUCCESS", "MPI_ERR_OTHER"}] :
       ctx' = CtxState("FreeSharedBuffer", "none",
                       [i \in DOMAIN FreeSharedBuffer |-> WindowCall(FreeSharedBuffer[i])],
                       sts, "returned", "none", "none")
  /\ UNCHANGED <<opsVars, winVars>>

CtxGetTypeSize ==
  /\ \E dtype \in CtxDataTypes :
       CtxCall("GetTypeSize", dtype, GetTypeSize(dtype), "none", FALSE)
  /\ UNCHANGED <<opsVars, winVars>>

CtxGetMPIDataType ==
  /\ \E dtype \in CtxDataTypes :
       LET t == GetMPIDataType(dtype)
       IN ctx' = IF t.ok
                 THEN CtxState("GetMPIDataType", dtype, <<>>, <<>>, t.value, "none", "none")
                 ELSE CtxState("GetMPIDataType", dtype, <<>>, <<>>, "thrown", t.error, t.name)
  /\ UNCHANGED <<opsVars, winVars>>

InitCtx ==
  /\ layout = <<2, 2>>
  /\ call = Call("none", "none", NoCount, 0, 1, FALSE)
  /\ pc = [r \in Ranks |-> "idle"]
  /\ log = [r \in Ranks |-> <<>>]
  /\ buf = [r \in Ranks |-> NoData]
  /\ sent = [r \in Ranks |-> NoData]
  /\ ctx = IdleCtx
  /\ wpc = <<>> /\ window = NoWindow /\ late = {}

NextCtx ==
  \/ CtxAllreduce
  \/ CtxAllgatherv
  \/ CtxBroadcast
  \/ CtxBarrier
  \/ CtxAllocateSharedBuffer
  \/ CtxQuerySharedBuffer
  \/ CtxFreeSharedBuffer
  \/ CtxGetTypeSize
  \/ CtxGetMPIDataType

SpecCtx == InitCtx /\ [][NextCtx]_vars

(***************************************************************************)
(* Properties of SpecCtx.                                                  *)
(***************************************************************************)
Primitives == {"Allreduce", "Allgatherv", "Broadcast", "Barrier",
               "AllocateSharedBuffer", "QuerySharedBuffer", "FreeSharedBuffer"}

\* the diagnostic that names a primitive
FailedMessage(op) ==
  CASE op = "Allreduce"  -> AllreduceFailed
    [] op = "Allgatherv" -> AllgathervFailed
    [] op = "Broadcast"  -> BroadcastFailed
    [] op = "Barrier"    -> BarrierFailed
    [] OTHER             -> op

FailedCalls == {i \in DOMAIN ctx.statuses : ctx.statuses[i] # "MPI_SUCCESS"}

\* C2: when a backend call of a primitive reports a non-success status, the
\* primitive ends in an error that names it, makes no further backend call and
\* does not return normally.
C2_FailureIsFatal ==
  (ctx.op \in Primitives /\ FailedCalls # {}) =>
    /\ ctx.result = "thrown"
    /\ ctx.error = FailedMessage(ctx.op)
    /\ \A i \in FailedCalls : i = Len(ctx.calls)

\* the part of C2 the code keeps: the four primitives that look at the status
C2_CheckedPrimitives ==
  (ctx.op \in {"Allreduce", "Allgatherv", "Broadcast", "Barrier"} /\ FailedCalls # {}) =>
    /\ ctx.result = "thrown"
    /\ ctx.error = FailedMessage(ctx.op)
    /\ Len(ctx.calls) = 1

TypeUsers == {"Allreduce", "Allgatherv", "Broadcast", "GetTypeSize", "GetMPIDataType"}

UnsupportedType(dtype) ==
  /\ ctx.result = "thrown"
  /\ ctx.error = "Type is not supported in MPI mode."
  /\ ctx.name = dtype
  /\ ctx.calls = <<>>

ResolvedHandle ==
  IF ctx.op = "GetMPIDataType" THEN ctx.result
  ELSE IF ctx.calls = <<>> THEN "none" ELSE ctx.calls[1].args.type

At(r, at, todo, used, fenced) ==
  [wpc EXCEPT ![r] = [at |-> at, todo |-> todo, used |-> used, fenced |-> fenced]]

\* MPIContext::AllocateSharedBuffer up to the blocking MPI_Win_allocate_shared
WinAllocateSharedBuffer(r) ==
  /\ wpc[r].at = "start"
  /\ \E e \in AllocateSharedBuffer("LOCAL") :
       wpc' = At(r, e.state, <<>>, FALSE, FALSE)
  /\ UNCHANGED <<window, late, opsVars, ctxVars>>

\* MPI_Win_allocate_shared is collective over the node: it returns once every
\* local rank has entered it
WinAllocateReturn(r) ==
  /\ wpc[r].at = "MPI_Win_allocate_shared"
  /\ \A q \in Group("local_comm", r) : wpc[q].at # "start"
  /\ wpc' = At(r, "allocated", <<>>, FALSE, FALSE)
  /\ window' = [window EXCEPT !.mapped = @ \cup {r}]
  /\ UNCHANGED <<late, opsVars, ctxVars>>

\* MPIContext::QuerySharedBuffer
WinQuerySharedBuffer(r) ==
  /\ wpc[r].at = "allocated"
  /\ \E peer \in Ranks : \E e \in QuerySharedBuffer(peer) :
       wpc' = At(r, "using", <<>>, FALSE, FALSE)
  /\ UNCHANGED <<window, late, opsVars, ctxVars>>

\* the rank reads or writes the window through the queried address
WinAccess(r) ==
  /\ wpc[r].at = "using"
  /\ wpc' = At(r, "using", <<>>, TRUE, FALSE)
  /\ late' = IF window.released # {} THEN late \cup {r} ELSE late
  /\ UNCHANGED <<window, opsVars, ctxVars>>

\* enter the next backend call of todo, or return when none is left
Proceed(r, todo, fenced) ==
  IF todo = <<>> THEN At(r, "freed", <<>>, wpc[r].used, fenced)
  ELSE At(r, Head(todo), Tail(todo), wpc[r].used, fenced \/ Head(todo) = "MPI_Win_fence")

\* MPIContext::FreeSharedBuffer up to its first backend call
WinFreeSharedBuffer(r) ==
  /\ wpc[r].at = "using"
  /\ wpc' = Proceed(r, FreeSharedBuffer, FALSE)
  /\ UNCHANGED <<window, late, opsVars, ctxVars>>

\* MPI_Win_fence is collective over the window's group: it returns once every
\* local rank has entered it
WinFenceReturn(r) ==
  /\ wpc[r].at = "MPI_Win_fence"
  /\ \A q \in Group("local_comm", r) : wpc[q].fenced
  /\ wpc' = Proceed(r, wpc[r].todo, TRUE)
  /\ UNCHANGED <<window, late, opsVars, ctxVars>>

\* MPI_Win_free releases the window of the calling rank
WinFree(r) ==
  /\ wpc[r].at = "MPI_Win_free"
  /\ window' = [window EXCEPT !.released = @ \cup {r}]
  /\ wpc' = Proceed(r, wpc[r].todo, wpc[r].fenced)
  /\ UNCHANGED <<late, opsVars, ctxVars>>

InitWin ==
  /\ layout \in {lay \in Layouts : Len(lay) = 1}
  /\ call = Call("none", "none", NoCount, 0, 1, FALSE)
  /\ pc = [r \in Ranks |-> "idle"]
  /\ log = [r \in Ranks |-> <<>>]
  /\ buf = [r \in Ranks |-> NoData]
  /\ sent = [r \in Ranks |-> NoData]
  /\ ctx = IdleCtx
  /\ wpc = [r \in Ranks |-> [at |-> "start", todo |-> <<>>, used |-> FALSE, fenced |-> FALSE]]
  /\ window = NoWindow
  /\ late = {}

NextWin ==
  \/ \E r \in Ranks : WinAllocateSharedBuffer(r)
  \/ \E r \in Ranks : WinAllocateReturn(r)
  \/ \E r \in Ranks : WinQuerySharedBuffer(r)
  \/ \E r \in Ranks : WinAccess(r)
  \/ \E r \in Ranks : WinFreeSharedBuffer(r)
  \/ \E r \in Ranks : WinFenceReturn(r)
  \/ \E r \in Ranks : WinFree(r)

SpecWin == InitWin /\ [][NextWin]_vars

====
